---- MODULE Spec2Model ----
(***************************************************************************)
(* Model of MP4BoxWrapper (src/wrapper.py): split_videos and merge_videos  *)
(* driving the external tool MP4Box as a subprocess.                       *)
(*                                                                         *)
(* Text is modelled as a sequence of symbols.  A symbol is one character   *)
(* (a digit, ".", ":", " ", "\t", "\n", "x") or one atomic word without    *)
(* whitespace ("Duration", "Computed", "Movie").  Durations are integers   *)
(* in milliseconds: the float h*3600 + m*60 + s + ms*1e-3 of the code is,  *)
(* up to floating-point rounding of the last term, the integer             *)
(* h*3600000 + m*60000 + s*1000 + ms divided by 1000.  The rounding moves  *)
(* no comparison and no ceiling: a duration that is a whole multiple of    *)
(* the requested duration has ms = 0 and is exact.                         *)
(***************************************************************************)
EXTENDS Integers, Sequences, FiniteSets, TLC

VARIABLES
    cfg,            \* the four path fields set by __init__
    pc,             \* position of the caller: idle, probe, split_loop, merge_run, done
    op,             \* operation in progress: none, split, merge
    duration,       \* split_videos: the requested segment duration (seconds)
    output,         \* _get_video_duration: decoded output of MP4Box -info
    video_duration, \* _calculate_segment_count: <<>> or <<milliseconds>>
    segment_count,  \* split_videos: <<>> or <<n>>
    index,          \* split_videos: loop variable of range(segment_count)
    listing,        \* merge_videos: what os.listdir returned
    sort_function,  \* merge_videos: the caller's key, a function on paths
    video_files,    \* merge_videos: the list after filtering and sorting
    command,        \* merge_videos: the command built, <<>> or <<cmd>>
    invocations,    \* every subprocess call made in this operation, in order
    files,          \* output files the external tool has written
    log,            \* logger records of this operation, in order
    result,         \* "none", "True", "False": the value returned
    raised          \* "none" or the exception that escaped to the caller

vars == <<cfg, pc, op, duration, output, video_duration, segment_count, index,
          listing, sort_function, video_files, command, invocations, files,
          log, result, raised>>

(***************************************************************************)
(* Bounds of the model.                                                    *)
(***************************************************************************)
\* largest minutes / seconds field value of the generated duration tokens
MaxField == 3
\* the split loop is followed for at most this many iterations
MaxSegments == 4
\* keys returned by the caller's sort function range over 0..MaxKey
MaxKey == 2

(***************************************************************************)
(* Text helpers: the str methods the code calls.                           *)
(***************************************************************************)
Whitespace == {" ", "\t", "\n"}

Digits == <<"0", "1", "2", "3", "4", "5", "6", "7", "8", "9">>

IsDigit(c) == \E i \in 1..10 : Digits[i] = c

DigitValue(c) == (CHOOSE i \in 1..10 : Digits[i] = c) - 1

\* index of the first occurrence of c in s, 0 when there is none
FirstIndex(s, c) ==
    IF \E i \in 1..Len(s) : s[i] = c
    THEN CHOOSE i \in 1..Len(s) : s[i] = c /\ \A j \in 1..(i - 1) : s[j] # c
    ELSE 0

\* str.split(sep): the fields between the occurrences of sep, empty ones kept
RECURSIVE SplitOn(_, _)
SplitOn(s, sep) ==
    LET i == FirstIndex(s, sep)
    IN  IF i = 0 THEN <<s>>
        ELSE <<SubSeq(s, 1, i - 1)>> \o SplitOn(SubSeq(s, i + 1, Len(s)), sep)

\* str.splitlines(): the lines, no empty last line after a final line break
RECURSIVE SplitLines(_)
SplitLines(s) ==
    LET i == FirstIndex(s, "\n")
    IN  IF s = <<>> THEN <<>>
        ELSE IF i = 0 THEN <<s>>
        ELSE <<SubSeq(s, 1, i - 1)>> \o SplitLines(SubSeq(s, i + 1, Len(s)))

\* str.split(): the maximal runs of non-whitespace
RECURSIVE SplitWs(_)
SplitWs(s) ==
    IF s = <<>> THEN <<>>
    ELSE IF s[1] \in Whitespace THEN SplitWs(Tail(s))
    ELSE LET ends == {i \in 1..Len(s) : s[i] \in Whitespace}
             stop == IF ends = {} THEN Len(s) + 1
                     ELSE CHOOSE i \in ends : \A j \in ends : i <= j
         IN  <<SubSeq(s, 1, stop - 1)>> \o SplitWs(SubSeq(s, stop, Len(s)))

\* str.strip(): leading and trailing whitespace removed
RECURSIVE Strip(_)
Strip(s) ==
    IF s = <<>> THEN s
    ELSE IF s[1] \in Whitespace THEN Strip(Tail(s))
    ELSE IF s[Len(s)] \in Whitespace THEN Strip(SubSeq(s, 1, Len(s) - 1))
    ELSE s

\* str.replace(a, b) for single characters
Replace(s, a, b) == [i \in 1..Len(s) |-> IF s[i] = a THEN b ELSE s[i]]

\* int(s) accepts s: a non-empty run of decimal digits
IsInt(s) == s # <<>> /\ \A i \in 1..Len(s) : IsDigit(s[i])

\* int(s) for an accepted s
RECURSIVE IntOf(_)
IntOf(s) ==
    IF s = <<>> THEN 0
    ELSE 10 * IntOf(SubSeq(s, 1, Len(s) - 1)) + DigitValue(s[Len(s)])

(***************************************************************************)
(* What the caller and the environment supply.                             *)
(***************************************************************************)
\* MP4BoxWrapper(...): the configuration of __main__ and one with a dotted name
Configs ==
    { [original_video_path |-> [dir |-> "", stem |-> <<"original">>, ext |-> ".mp4"],
       video_segments |-> "video_segments",
       output_path |-> "merged.mp4",
       output_directory |-> "video_segments"],
      [original_video_path |-> [dir |-> "in", stem |-> <<"my", ".", "clip">>, ext |-> ".mp4"],
       video_segments |-> "parts",
       output_path |-> "out/all.mp4",
       output_directory |-> "out"] }

\* split_videos(duration): the requested segment durations, in seconds
Durations == <<60, 2, 1, 0, -1, -60>>

\* how a subprocess call can end: exit status non-zero or zero
Outcomes == <<"exit1", "exit0">>

\* a number printed by the external tool, zero-padded to at least width digits
RECURSIVE FormatField(_, _)
FormatField(n, width) ==
    IF n < 10 /\ width <= 1 THEN <<Digits[n + 1]>>
    ELSE FormatField(n \div 10, width - 1) \o <<Digits[(n % 10) + 1]>>

\* separators of a duration token: MP4Box prints HH:MM:SS.mmm, the
\* specification writes HH.MM.SS.mmm
SepStyles == { <<":", ":", ".">>, <<".", ".", ".">> }

\* widths of the four fields: zero-padded as MP4Box prints them, or unpadded
PadStyles == { <<2, 2, 2, 3>>, <<1, 1, 1, 1>> }

\* the duration token for hours h, minutes m, seconds s, milliseconds ms
Token(h, m, s, ms, pad, sep) ==
    FormatField(h, pad[1]) \o <<sep[1]>> \o FormatField(m, pad[2]) \o <<sep[2]>>
        \o FormatField(s, pad[3]) \o <<sep[3]>> \o FormatField(ms, pad[4])

HourValues == 0..1
MinuteValues == 0..MaxField
SecondValues == (0..MaxField) \cup {30}
MilliValues == {0, 4}

\* MP4Box -info output with a well-formed duration line after a header line
GoodOutput(h, m, s, ms, pad, sep) ==
    <<"Movie", "\n", "Duration", " ">> \o Token(h, m, s, ms, pad, sep) \o <<"\n">>

GoodOutputs ==
    { GoodOutput(h, m, s, ms, pad, sep) :
        h \in HourValues, m \in MinuteValues, s \in SecondValues,
        ms \in MilliValues, pad \in PadStyles, sep \in SepStyles }

\* other outputs: empty, no marker line, marker alone on its line, token as
\* third word, indented marker line, two marker lines, three fields, five
\* fields, an empty field, a field that is no number
OddOutputs ==
    { <<>>,
      <<"Movie", "\n", "Movie", " ", "0", "\n">>,
      <<"Movie", "\n", "Duration", "\n">>,
      <<"Computed", " ", "Duration", " ", "0", ":", "0", ":", "2", ".", "0">>,
      <<"\t", "Duration", " ", " ", "0", ":", "0", ":", "3", ".", "5", "0", "0", " ", "x", "\n">>,
      <<"Duration", " ", "0", ":", "0", ":", "1", ".", "0", "\n",
        "Duration", " ", "0", ":", "0", ":", "2", ".", "0", "\n">>,
      <<"Duration", " ", "0", ":", "1", ".", "0">>,
      <<"Duration", " ", "0", ":", "0", ":", "0", ":", "1", ".", "0">>,
      <<"Duration", " ", "0", ":", ":", "1", ".", "0">>,
      <<"Duration", " ", "0", ":", "x", ":", "1", ".", "0">> }

InfoOutputs == GoodOutputs \cup OddOutputs

(***************************************************************************)
(* _get_video_duration                                                     *)
(***************************************************************************)
\* "Duration" in line
HasMarker(line) == \E i \in 1..Len(line) : line[i] = "Duration"

\* next((line for line in output.splitlines() if "Duration" in line), None):
\* <<>> for None, else <<line>>
DurationLine(out) ==
    LET lines == SplitLines(out)
        hits == {i \in 1..Len(lines) : HasMarker(lines[i])}
    IN  IF hits = {} THEN <<>>
        ELSE <<lines[CHOOSE i \in hits : \A j \in hits : i <= j]>>

\* a slip in the conversion: minutes weighted like hours
TotalMsMut(hours, minutes, seconds, millisecond) ==
    hours * 3600000 + minutes * 3600000 + seconds * 1000 + millisecond

\* hours * 3600 + minutes * 60 + seconds + millisecond * 1e-3, in milliseconds
TotalMs(hours, minutes, seconds, millisecond) ==
    hours * 3600000 + minutes * 60000 + seconds * 1000 + millisecond

\* lines 113-120: the second word of the line, "." replaced by ":", split at
\* ":" into exactly four integers
ParseDurationLine(line) ==
    LET words == SplitWs(line)
    IN  IF Len(words) < 2 THEN [exc |-> "IndexError", value |-> 0]
        ELSE LET duration_str == Replace(Strip(words[2]), ".", ":")
                 fields == SplitOn(duration_str, ":")
             IN  IF Len(fields) # 4 \/ \E i \in 1..Len(fields) : ~IsInt(fields[i])
                 THEN [exc |-> "ValueError", value |-> 0]
                 ELSE [exc |-> "none",
                       value |-> TotalMs(IntOf(fields[1]), IntOf(fields[2]),
                                         IntOf(fields[3]), IntOf(fields[4]))]

\* the whole probe, given how the info call ended and what it printed:
\* check_output raises CalledProcessError on a non-zero exit status
GetVideoDuration(outcome, out) ==
    IF outcome # "exit0" THEN [exc |-> "CalledProcessError", value |-> 0]
    ELSE LET duration_line == DurationLine(out)
         IN  IF duration_line # <<>> /\ duration_line[1] # <<>>
             THEN ParseDurationLine(duration_line[1])
             ELSE [exc |-> "none", value |-> 0]

(***************************************************************************)
(* _calculate_segment_count                                                *)
(***************************************************************************)
\* math.ceil(a / b) for integers a and b # 0
CeilDiv(a, b) ==
    IF b > 0 THEN -((-a) \div b) ELSE -(a \div (-b))

\* a slip in the comparison: "<=" for "<"
SegmentCountMutLe(video_ms, d) ==
    IF video_ms <= d * 1000 THEN [exc |-> "none", value |-> 0]
    ELSE IF d = 0 THEN [exc |-> "ZeroDivisionError", value |-> 0]
    ELSE [exc |-> "none", value |-> CeilDiv(video_ms, d * 1000)]

\* lines 83-86 on a probed duration (milliseconds) and a requested duration
\* (seconds): 0 when shorter, else the ceiling of the quotient; the division
\* raises ZeroDivisionError for a requested duration of 0
SegmentCount(video_ms, d) ==
    IF video_ms < d * 1000 THEN [exc |-> "none", value |-> 0]
    ELSE IF d = 0 THEN [exc |-> "ZeroDivisionError", value |-> 0]
    ELSE [exc |-> "none", value |-> CeilDiv(video_ms, d * 1000)]

(***************************************************************************)
(* split_videos                                                            *)
(***************************************************************************)
\* subprocess.run without check=True: the exit status is ignored
RaisesCalledProcessErrorMut(outcome) == FALSE

\* subprocess.run(command, check=True) raises CalledProcessError exactly
\* when the exit status is not zero
RaisesCalledProcessError(outcome) == outcome # "exit0"

\* ["MP4Box", "-info", video_path]
InfoCommand(video_path) ==
    [tool |-> "MP4Box", opt |-> "-info", input |-> video_path]

\* the test for a zero count left out
SkipsSplitMut(count) == FALSE

\* if segment_count == 0
SkipsSplit(count) == count = 0

\* os.path.splitext(os.path.basename(path))[0]
OutputBase(path) == path.stem

\* a 1-based index used for the offset
StartTimeMut(i, d) == (i + 1) * d

\* start_time = index * duration
StartTime(i, d) == i * d

\* os.path.join(self.output_directory, f"{output_base}_segment_{index+1}.mp4")
SegmentPath(c, i) ==
    [dir |-> c.output_directory,
     stem |-> OutputBase(c.original_video_path) \o <<"_segment_", i + 1>>,
     ext |-> ".mp4"]

\* ["MP4Box", "-splitx", f"{start_time}:{start_time + duration}",
\*  self.original_video_path, "-out", output_path]
SplitCommand(c, i, d) ==
    [tool |-> "MP4Box", opt |-> "-splitx",
     range |-> <<StartTime(i, d), StartTime(i, d) + d>>,
     input |-> c.original_video_path,
     out |-> SegmentPath(c, i)]

LogRecord(level, msg) == [level |-> level, msg |-> msg]

\* the caller enters split_videos(d); the info call is spawned
CallSplit ==
    /\ pc = "idle"
    /\ \E i \in 1..Len(Durations) : duration' = Durations[i]
    /\ op' = "split"
    /\ pc' = "probe"
    /\ UNCHANGED <<cfg, output, video_duration, segment_count, index, listing,
                   sort_function, video_files, command, invocations, files,
                   log, result, raised>>

\* lines 132-146: the info call returns; the duration is parsed, the count
\* computed, and the call is skipped, enters the loop, or ends in an exception
SplitProbe ==
    /\ pc = "probe"
    /\ \E o \in 1..Len(Outcomes) :
       \E out \in (IF Outcomes[o] = "exit0" THEN InfoOutputs ELSE {<<>>}) :
          LET outcome == Outcomes[o]
              probe == GetVideoDuration(outcome, out)
              count == SegmentCount(probe.value, duration)
          IN  /\ output' = out
              /\ invocations' = Append(invocations,
                     [argv |-> InfoCommand(cfg.original_video_path),
                      outcome |-> outcome])
              /\ IF probe.exc # "none"
                 THEN /\ raised' = probe.exc
                      /\ pc' = "done"
                      /\ UNCHANGED <<video_duration, segment_count, log, result>>
                 ELSE /\ video_duration' = <<probe.value>>
                      /\ IF count.exc # "none"
                         THEN /\ raised' = count.exc
                              /\ pc' = "done"
                              /\ UNCHANGED <<segment_count, log, result>>
                         ELSE /\ segment_count' = <<count.value>>
                              /\ raised' = raised
                              /\ IF SkipsSplit(count.value)
                                 THEN /\ log' = Append(log, LogRecord("info", "Skipping file"))
                                      /\ result' = "False"
                                      /\ pc' = "done"
                                 ELSE /\ pc' = "split_loop"
                                      /\ UNCHANGED <<log, result>>
    /\ UNCHANGED <<cfg, op, duration, index, listing, sort_function,
                   video_files, command, files>>

\* lines 147-172: one iteration of the loop; the split call returns
SplitSegment ==
    /\ pc = "split_loop"
    /\ index < segment_count[1]
    /\ index < MaxSegments
    /\ \E o \in 1..Len(Outcomes) :
          LET outcome == Outcomes[o]
              cmd == SplitCommand(cfg, index, duration)
          IN  /\ invocations' = Append(invocations,
                     [argv |-> cmd, outcome |-> outcome])
              /\ IF RaisesCalledProcessError(outcome)
                 THEN /\ log' = Append(log, LogRecord("error", "Error while splitting video"))
                      /\ result' = "False"
                      /\ pc' = "done"
                      /\ UNCHANGED <<index, files>>
                 ELSE /\ log' = Append(log, LogRecord("info", "Segment saved"))
                      /\ files' = IF outcome = "exit0" THEN files \cup {cmd.out}
                                  ELSE files
                      /\ index' = index + 1
                      /\ UNCHANGED <<result, pc>>
    /\ UNCHANGED <<cfg, op, duration, output, video_duration, segment_count,
                   listing, sort_function, video_files, command, raised>>

\* line 174: range(segment_count) is exhausted
SplitFinish ==
    /\ pc = "split_loop"
    /\ index >= segment_count[1]
    /\ result' = "True"
    /\ pc' = "done"
    /\ UNCHANGED <<cfg, op, duration, output, video_duration, segment_count,
                   index, listing, sort_function, video_files, command,
                   invocations, files, log, raised>>

(***************************************************************************)
(* merge_videos                                                            *)
(***************************************************************************)
\* names a directory may hold: three segments, and one file that is no video
DirNames ==
    { <<"a", "_", "1", ".mp4">>,
      <<"a", "_", "1", "0", ".mp4">>,
      <<"a", "_", "2", ".mp4">>,
      <<"notes", ".txt">> }

\* os.listdir: the names of any set of entries, in any order
Listings ==
    UNION { {l \in [1..n -> DirNames] : \A i, j \in 1..n : l[i] = l[j] => i = j} :
              n \in 0..Cardinality(DirNames) }

\* file.endswith(".mp4")
EndsWithMp4(file) == file # <<>> /\ file[Len(file)] = ".mp4"

\* os.path.join(self.video_segments, file)
JoinPath(dir, file) == <<dir, "/">> \o file

\* lines 66-71 on the names os.listdir returned
RECURSIVE GetVideoFiles(_, _)
GetVideoFiles(dir, names) ==
    IF names = <<>> THEN <<>>
    ELSE (IF EndsWithMp4(Head(names)) THEN <<JoinPath(dir, Head(names))>> ELSE <<>>)
             \o GetVideoFiles(dir, Tail(names))

\* the paths merge_videos can pass to the sort function
MediaPaths(c) ==
    {JoinPath(c.video_segments, n) : n \in {m \in DirNames : EndsWithMp4(m)}}

\* str.removesuffix(".mp4")
RemoveSuffixMp4(s) ==
    IF EndsWithMp4(s) THEN SubSeq(s, 1, Len(s) - 1) ELSE s

\* the sort function of __main__ (lines 235-237):
\* int(name.split("_")[-1].removesuffix(".mp4")); <<>> when int() raises
MainKey(name) ==
    LET parts == SplitOn(name, "_")
        digits == RemoveSuffixMp4(parts[Len(parts)])
    IN  IF IsInt(digits) THEN <<IntOf(digits)>> ELSE <<>>

\* the sort functions a caller may supply: on each path the function returns
\* a key <<k>> or raises (<<>>)
SortFunctions(c) ==
    [MediaPaths(c) -> {<<>>} \cup {<<k>> : k \in 0..MaxKey}]
        \cup {[p \in MediaPaths(c) |-> MainKey(p)]}

\* list.sort(key=...) computes the key of every element first
KeyRaises(seq, key) == \E i \in 1..Len(seq) : key[seq[i]] = <<>>

\* x put before the elements of equal key: a sort that is not stable
InsertByKeyMut(sorted, x, key) ==
    LET before == {i \in 1..Len(sorted) : key[sorted[i]][1] < key[x][1]}
        n == Cardinality(before)
    IN  SubSeq(sorted, 1, n) \o <<x>> \o SubSeq(sorted, n + 1, Len(sorted))

\* x put behind every element whose key is not larger: the sort is stable
InsertByKey(sorted, x, key) ==
    LET before == {i \in 1..Len(sorted) : key[sorted[i]][1] <= key[x][1]}
        n == Cardinality(before)
    IN  SubSeq(sorted, 1, n) \o <<x>> \o SubSeq(sorted, n + 1, Len(sorted))

\* video_files.sort(key=sort_function), for a key that does not raise
RECURSIVE SortByKey(_, _)
SortByKey(seq, key) ==
    IF seq = <<>> THEN <<>>
    ELSE InsertByKey(SortByKey(SubSeq(seq, 1, Len(seq) - 1), key), seq[Len(seq)], key)

\* the test for an empty list left out
NoVideoFilesMut(vf) == FALSE

\* if not video_files
NoVideoFiles(vf) == vf = <<>>

\* lines 195-202: "-add" for a video equal to video_files[0], else "-cat"
InputFlag(video, vf) == IF video = vf[1] THEN "-add" ELSE "-cat"

VideosWithCommands(vf) ==
    [i \in 1..Len(vf) |-> [flag |-> InputFlag(vf[i], vf), path |-> vf[i]]]

\* ["MP4Box", "-force-cat", *videos_with_commands, self.output_path]
MergeCommand(c, vf) ==
    [tool |-> "MP4Box", opt |-> "-force-cat",
     inputs |-> VideosWithCommands(vf),
     out |-> c.output_path]

\* the caller enters merge_videos(sort_function)
CallMerge ==
    /\ pc = "idle"
    /\ \E key \in SortFunctions(cfg) : sort_function' = key
    /\ op' = "merge"
    /\ pc' = "listdir"
    /\ UNCHANGED <<cfg, duration, output, video_duration, segment_count, index,
                   listing, video_files, command, invocations, files, log,
                   result, raised>>

\* line 67: os.listdir raises, the directory cannot be read
MergeListFails ==
    /\ pc = "listdir"
    /\ raised' = "FileNotFoundError"
    /\ pc' = "done"
    /\ UNCHANGED <<cfg, op, duration, output, video_duration, segment_count,
                   index, listing, sort_function, video_files, command,
                   invocations, files, log, result>>

\* lines 182-209: os.listdir returns; the files are filtered, sorted and the
\* command is built, or the call ends
MergeList ==
    /\ pc = "listdir"
    /\ \E names \in Listings :
          LET found == GetVideoFiles(cfg.video_segments, names)
              one == IF Len(found) = 1
                     THEN <<LogRecord("info", "Can't merge just one video")>>
                     ELSE <<>>
          IN  /\ listing' = <<names>>
              /\ IF NoVideoFiles(found)
                 THEN /\ log' = Append(log, LogRecord("info", "No video files found"))
                      /\ result' = "False"
                      /\ pc' = "done"
                      /\ video_files' = found
                      /\ UNCHANGED <<command, raised>>
                 ELSE IF KeyRaises(found, sort_function)
                 THEN /\ log' = log \o one
                      /\ raised' = "ValueError"
                      /\ pc' = "done"
                      /\ video_files' = found
                      /\ UNCHANGED <<command, result>>
                 ELSE LET sorted == SortByKey(found, sort_function)
                      IN  /\ video_files' = sorted
                          /\ log' = log \o one \o <<LogRecord("info", "Video files")>>
                          /\ command' = <<MergeCommand(cfg, sorted)>>
                          /\ pc' = "merge_run"
                          /\ UNCHANGED <<result, raised>>
    /\ UNCHANGED <<cfg, op, duration, output, video_duration, segment_count,
                   index, sort_function, invocations, files>>

\* lines 210-222: the merge call returns
MergeRun ==
    /\ pc = "merge_run"
    /\ \E o \in 1..Len(Outcomes) :
       LET outcome == Outcomes[o]
       IN
          /\ invocations' = Append(invocations,
                 [argv |-> command[1], outcome |-> outcome])
          /\ IF RaisesCalledProcessError(outcome)
             THEN /\ log' = Append(log, LogRecord("error", "Error while merging videos"))
                  /\ result' = "False"
                  /\ files' = files
             ELSE /\ log' = Append(log, LogRecord("info", "Videos merged successfully"))
                  /\ result' = "True"
                  /\ files' = IF outcome = "exit0" THEN files \cup {command[1].out}
                              ELSE files
    /\ pc' = "done"
    /\ UNCHANGED <<cfg, op, duration, output, video_duration, segment_count,
                   index, listing, sort_function, video_files, command, raised>>

(***************************************************************************)
(* The caller                                                              *)
(***************************************************************************)
\* the state between two operations: nothing called, nothing recorded
Idle(c) ==
    /\ cfg = c
    /\ pc = "idle"
    /\ op = "none"
    /\ duration = 0
    /\ output = <<>>
    /\ video_duration = <<>>
    /\ segment_count = <<>>
    /\ index = 0
    /\ listing = <<>>
    /\ sort_function = <<>>
    /\ video_files = <<>>
    /\ command = <<>>
    /\ invocations = <<>>
    /\ files = {}
    /\ log = <<>>
    /\ result = "none"
    /\ raised = "none"

\* lines 55-58: a wrapper is constructed
Init == \E c \in Configs : Idle(c)

\* the operation has returned or raised; the caller may call again
Return ==
    /\ pc = "done"
    /\ pc' = "idle"
    /\ op' = "none"
    /\ duration' = 0
    /\ output' = <<>>
    /\ video_duration' = <<>>
    /\ segment_count' = <<>>
    /\ index' = 0
    /\ listing' = <<>>
    /\ sort_function' = <<>>
    /\ video_files' = <<>>
    /\ command' = <<>>
    /\ invocations' = <<>>
    /\ files' = {}
    /\ log' = <<>>
    /\ result' = "none"
    /\ raised' = "none"
    /\ UNCHANGED cfg

Next ==
    \/ CallSplit
    \/ SplitProbe
    \/ SplitSegment
    \/ SplitFinish
    \/ CallMerge
    \/ MergeListFails
    \/ MergeList
    \/ MergeRun
    \/ Return

Spec == Init /\ [][Next]_vars

(***************************************************************************)
(* Properties                                                              *)
(***************************************************************************)
\* the split calls made so far in this operation, in the order made
SplitInvocations ==
    SelectSeq(invocations, LAMBDA r : r.argv.opt = "-splitx")

\* the split command for the segment with 0-based index i, written out
ExpectedSplit(i) ==
    [tool |-> "MP4Box", opt |-> "-splitx",
     range |-> <<i * duration, i * duration + duration>>,
     input |-> cfg.original_video_path,
     out |-> [dir |-> cfg.output_directory,
              stem |-> cfg.original_video_path.stem \o <<"_segment_", i + 1>>,
              ext |-> ".mp4"]]

\* the info call of split_videos has returned
ProbeReturned == op = "split" /\ pc \in {"split_loop", "done"}

\* C1: for a requested duration > 0 and a probed total duration >= 0, the
\* segment count is 0 exactly when the total is less than the requested
\* duration, and otherwise it is the least n with n * requested >= total,
\* that is ceil(total / requested).
C1_SegmentCount ==
    (segment_count # <<>> /\ duration > 0 /\ video_duration[1] >= 0) =>
        LET total == video_duration[1]
            req == duration * 1000
            n == segment_count[1]
        IN  /\ (n = 0) <=> (total < req)
            /\ total >= req => (n * req >= total /\ (n - 1) * req < total)

\* C1 witness: 90 s split by 60 s gives ceil(1.5) = 2 segments
C1_Witness ==
    /\ duration = 60
    /\ video_duration = <<90000>>
    /\ segment_count = <<2>>

\* C2: in split_videos the split calls made are those of the indices 0, 1,
\* 2, ... in this order, each once; a call that exits non-zero is the last
\* one made (nothing after it, no retry) and split_videos returns False.
C2_AbortOnFailure ==
    op = "split" =>
        LET si == SplitInvocations
        IN  /\ \A i \in 1..Len(si) : si[i].argv = ExpectedSplit(i - 1)
            /\ \A i \in 1..Len(si) :
                   si[i].outcome # "exit0" =>
                       /\ i = Len(si)
                       /\ pc = "done"
                       /\ result = "False"
                       /\ raised = "none"

\* C2 witness: the tool fails on segment 2 of 3
C2_Witness ==
    /\ op = "split"
    /\ pc = "done"
    /\ segment_count = <<3>>
    /\ Len(SplitInvocations) = 2
    /\ SplitInvocations[1].outcome = "exit0"
    /\ SplitInvocations[2].outcome = "exit1"
    /\ result = "False"

\* C3: split_videos and merge_videos never let an exception escape: every
\* call ends by returning a boolean.
C3_NoExceptionEscapes ==
    pc = "done" => (raised = "none" /\ result \in {"True", "False"})

\* C4: the duration probe never raises; it returns 0 when the info call
\* exits non-zero, when no line holds the marker, and when the marker line
\* cannot be parsed into four integers.
C4_ProbeNeverRaises ==
    (op = "split" /\ invocations # <<>>) =>
        /\ raised \notin {"CalledProcessError", "ValueError", "IndexError"}
        /\ video_duration # <<>>
        /\ ( \/ invocations[1].outcome # "exit0"
             \/ DurationLine(output) = <<>>
             \/ ParseDurationLine(DurationLine(output)[1]).exc # "none" )
               => video_duration = <<0>>

\* C5: when os.listdir returns no name with the media extension,
\* merge_videos returns False and no subprocess call is made.
C5_EmptyDirectory ==
    ( /\ op = "merge"
      /\ listing # <<>>
      /\ \A i \in 1..Len(listing[1]) :
             listing[1][i][Len(listing[1][i])] # ".mp4" ) =>
        /\ pc = "done"
        /\ result = "False"
        /\ raised = "none"
        /\ invocations = <<>>

\* C5 witness: the directory holds only a file that is no video
C5_Witness ==
    /\ op = "merge"
    /\ listing = << << <<"notes", ".txt">> >> >>
    /\ result = "False"

\* the media paths of the listing, in listing order
ListedMedia ==
    LET names == listing[1]
        media == SelectSeq(names, LAMBDA n : n[Len(n)] = ".mp4")
    IN  [i \in 1..Len(media) |-> <<cfg.video_segments, "/">> \o media[i]]

\* position of path p in the sequence q
PositionIn(q, p) == CHOOSE i \in 1..Len(q) : q[i] = p

\* C6: for a listing with n >= 1 media files and a key defined on them,
\* merge_videos calls the tool exactly once, with -force-cat, the listed
\* media files in non-decreasing key order, files of equal key in listing
\* order, the first flagged -add and every other one -cat, and the output
\* path.
C6_MergeCommand ==
    ( /\ op = "merge"
      /\ pc = "done"
      /\ listing # <<>>
      /\ Len(ListedMedia) >= 1
      /\ \A i \in 1..Len(ListedMedia) : sort_function[ListedMedia[i]] # <<>> ) =>
        /\ Len(invocations) = 1
        /\ LET cmd == invocations[1].argv
               in == cmd.inputs
               n == Len(ListedMedia)
           IN  /\ cmd.tool = "MP4Box"
               /\ cmd.opt = "-force-cat"
               /\ cmd.out = cfg.output_path
               /\ Len(in) = n
               /\ {in[i].path : i \in 1..n} = {ListedMedia[i] : i \in 1..n}
               /\ \A i, j \in 1..n :
                      i < j =>
                          LET ki == sort_function[in[i].path][1]
                              kj == sort_function[in[j].path][1]
                          IN  /\ ki <= kj
                              /\ ki = kj =>
                                     PositionIn(ListedMedia, in[i].path)
                                         < PositionIn(ListedMedia, in[j].path)
               /\ in[1].flag = "-add"
               /\ \A i \in 2..n : in[i].flag = "-cat"

\* C6 witness: a_1, a_10, a_2 listed in this order and sorted by numeric
\* suffix are merged as -add a_1 -cat a_2 -cat a_10
C6_Witness ==
    /\ op = "merge"
    /\ pc = "done"
    /\ listing = << << <<"a", "_", "1", ".mp4">>,
                       <<"a", "_", "1", "0", ".mp4">>,
                       <<"a", "_", "2", ".mp4">> >> >>
    /\ sort_function = [p \in MediaPaths(cfg) |-> MainKey(p)]
    /\ Len(invocations) = 1
    /\ invocations[1].argv.inputs =
           << [flag |-> "-add", path |-> <<cfg.video_segments, "/", "a", "_", "1", ".mp4">>],
              [flag |-> "-cat", path |-> <<cfg.video_segments, "/", "a", "_", "2", ".mp4">>],
              [flag |-> "-cat", path |-> <<cfg.video_segments, "/", "a", "_", "1", "0", ".mp4">>] >>

\* C7: when the segment count is n >= 1 and every call exits zero,
\* split_videos makes exactly n split calls, for the indices 0..n-1 in this
\* order, call i with the range i*duration : i*duration + duration and the
\* output <base>_segment_<i+1>.mp4 in the output directory, and returns True.
C7_AllSegments ==
    ( /\ op = "split"
      /\ pc = "done"
      /\ segment_count # <<>>
      /\ segment_count[1] >= 1
      /\ \A i \in 1..Len(invocations) : invocations[i].outcome = "exit0" ) =>
        LET si == SplitInvocations
            n == segment_count[1]
        IN  /\ Len(invocations) = n + 1
            /\ Len(si) = n
            /\ \A i \in 1..n : si[i].argv = ExpectedSplit(i - 1)
            /\ files = {ExpectedSplit(i - 1).out : i \in 1..n}
            /\ result = "True"
            /\ raised = "none"

\* C7 witness: 90 s split by 60 s gives exactly the ranges 0:60 and 60:120
C7_Witness ==
    /\ op = "split"
    /\ pc = "done"
    /\ duration = 60
    /\ video_duration = <<90000>>
    /\ result = "True"
    /\ Len(SplitInvocations) = 2
    /\ SplitInvocations[1].argv.range = <<0, 60>>
    /\ SplitInvocations[2].argv.range = <<60, 120>>
    /\ SplitInvocations[2].argv.out.stem = cfg.original_video_path.stem \o <<"_segment_", 2>>

\* C8 as stated: when the segment count is zero, split_videos makes no split
\* call, writes no file, and reports a skipped outcome that is not the
\* failure outcome.
C8_SkippedNotFailure ==
    (op = "split" /\ segment_count = <<0>>) =>
        /\ pc = "done"
        /\ SplitInvocations = <<>>
        /\ files = {}
        /\ log = <<[level |-> "info", msg |-> "Skipping file"]>>
        /\ raised = "none"
        /\ result # "False"

\* C8 amended: when the segment count is zero, split_videos makes no split
\* call, writes no file, raises nothing, logs one info-level "Skipping"
\* record and no error record, and returns False, the value it also
\* returns on failure.
C8_SkippedReturnsFalse ==
    (op = "split" /\ segment_count = <<0>>) =>
        /\ pc = "done"
        /\ SplitInvocations = <<>>
        /\ Len(invocations) = 1
        /\ files = {}
        /\ log = <<[level |-> "info", msg |-> "Skipping file"]>>
        /\ raised = "none"
        /\ result = "False"

\* C8 witness: a 30 s video and a requested duration of 60 s
C8_Witness ==
    /\ op = "split"
    /\ duration = 60
    /\ video_duration = <<30000>>
    /\ segment_count = <<0>>
    /\ result = "False"

\* the words of the first line of the info output that holds the marker
MarkerLineWords ==
    IF DurationLine(output) = <<>> THEN <<>> ELSE SplitWs(DurationLine(output)[1])

\* every generated token with the seconds it stands for, in milliseconds
TokenValues ==
    { <<Token(h, m, s, ms, pad, sep), h * 3600000 + m * 60000 + s * 1000 + ms>> :
        h \in HourValues, m \in MinuteValues, s \in SecondValues,
        ms \in MilliValues, pad \in PadStyles, sep \in SepStyles }

\* C9 as stated: when the first marker line of the info output carries a
\* token of four integer fields h, m, s, ms, the probe returns
\* h*3600000 + m*60000 + s*1000 + ms milliseconds.
C9_TokenAnywhere ==
    (ProbeReturned /\ invocations[1].outcome = "exit0") =>
        LET words == MarkerLineWords
        IN  \A i \in 1..Len(words) :
                \A tv \in TokenValues :
                    words[i] = tv[1] => video_duration = <<tv[2]>>

\* C9 amended: when the second word of the first marker line of the info
\* output is a token of four integer fields h, m, s, ms, the probe returns
\* h*3600000 + m*60000 + s*1000 + ms milliseconds.
C9_TokenSecondWord ==
    (ProbeReturned /\ invocations[1].outcome = "exit0") =>
        LET words == MarkerLineWords
        IN  Len(words) >= 2 =>
                \A tv \in TokenValues :
                    words[2] = tv[1] => video_duration = <<tv[2]>>

\* C9 witness: the token 01.02.03.004 yields 3723.004 s
C9_Witness ==
    /\ op = "split"
    /\ output = <<"Movie", "\n", "Duration", " ",
                  "0", "1", ".", "0", "2", ".", "0", "3", ".", "0", "0", "4", "\n">>
    /\ video_duration = <<3723004>>

\* C10: split_videos returns True only if at least one split call was made
\* and every split call made exited zero.
C10_SuccessHasSegments ==
    (op = "split" /\ pc = "done" /\ result = "True") =>
        /\ SplitInvocations # <<>>
        /\ \A i \in 1..Len(SplitInvocations) : SplitInvocations[i].outcome = "exit0"

====
